---- MODULE Spec2Model ----
(***************************************************************************)
(* skmultilearn/cluster/graphtool.py as a state machine.                   *)
(*                                                                         *)
(* One StochasticBlockModel (the four configuration attributes and _state) *)
(* and one GraphToolCooccurenceClusterer holding it (its instance          *)
(* attributes, as the instance dictionary `clusterer`).  graph-tool's      *)
(* solver, its Graph and the graph builder are collaborators outside the   *)
(* file: what they return is drawn from bounded sets, and every call made  *)
(* to them during an operation is logged in `calls`.                       *)
(***************************************************************************)
EXTENDS Integers, Sequences, FiniteSets, TLC

VARIABLES nested, use_degree_correlation, allow_overlap, weight_model, _state,
          clusterer, ret, calls

vars == <<nested, use_degree_correlation, allow_overlap, weight_model, _state,
          clusterer, ret, calls>>

config == <<nested, use_degree_correlation, allow_overlap, weight_model>>

(***************************************************************************)
(* Bounds of the model.                                                    *)
(***************************************************************************)
MaxLabels == 2      \* label columns of y: 1..MaxLabels
MaxBlocks == 2      \* blocks B a fitted level reports: 1..MaxBlocks
MaxWeight == 2      \* edge weights the graph builder reports: 1..MaxWeight
MaxEdges  == 1      \* entries of the graph builder's mapping: 0..MaxEdges

(***************************************************************************)
(* Python values.                                                          *)
(***************************************************************************)
None == [type |-> "NoneType"]

Str(s) == [type |-> "str", v |-> s]

\* `if self.weight_model:` -- None and the empty string are false.
Truthy(v) == v # None /\ v # Str("")

Returned(v) == [kind |-> "returned", value |-> v]

Raised(e) == [kind |-> "raised", value |-> e]

\* obj.name on an object of a type without that attribute.
AttributeError(obj, name) == [type |-> "AttributeError", obj |-> obj.type, name |-> name]

\* An exception raised inside a collaborator.
CollaboratorError(who) == [type |-> "Exception", origin |-> who]

WeightModels == {None, Str("real-exponential")}

FeatureMatrices == {"X0", "X1"}

LabelMatrices == {[type |-> "matrix", shape |-> <<"n_samples", L>>] : L \in 1..MaxLabels}

EmptyDict == [k \in {} |-> None]

\* self.<name> = value
SetAttr(obj, name, value) ==
    [k \in DOMAIN obj \cup {name} |-> IF k = name THEN value ELSE obj[k]]

HasAttr(obj, name) == name \in DOMAIN obj

(***************************************************************************)
(* graph-tool's Graph and edge property map, as build_graph_instance uses  *)
(* them.  Vertices are 0..n-1; an edge descriptor is the edge's position   *)
(* in `edges`; a property map holds one value per edge written so far.     *)
(***************************************************************************)
\* gt.Graph(directed=False) followed by g.add_vertex(n)
Graph(n) == [type |-> "Graph", directed |-> FALSE, n |-> n, edges |-> << >>]

\* g.add_edge(s, t)
add_edge(g, s, t) == [g EXCEPT !.edges = Append(@, <<s, t>>)]

\* g.new_edge_property('double')
new_edge_property == [type |-> "EdgePropertyMap", value_type |-> "double", a |-> << >>]

\* The weight assignment as it would be if every edge got weight 1.
set_weight_unit(weights, weight) == [weights EXCEPT !.a = Append(@, 1)]

\* self.weights[e] = weight, e the edge just added
set_weight(weights, weight) == [weights EXCEPT !.a = Append(@, weight)]

\* What graph_builder.transform(y) may return: a dict from pairs of label
\* indices to weights, here the sequence of its items in iteration order.
Pairs(L) == {p \in (0..(L - 1)) \X (0..(L - 1)) : p[1] < p[2]}

Keys(items) == {items[i].edge : i \in DOMAIN items}

RECURSIVE ItemSeqs(_, _)
ItemSeqs(L, k) ==
    IF k = 0 THEN {<< >>}
    ELSE LET shorter == ItemSeqs(L, k - 1)
         IN shorter \cup
            {Append(items, [edge |-> e, weight |-> w]) :
                items \in {s \in shorter : Len(s) = k - 1},
                e \in Pairs(L), w \in 1..MaxWeight}

EdgeMaps(L) ==
    {items \in ItemSeqs(L, MaxEdges) : Cardinality(Keys(items)) = Len(items)}

\* The loop of build_graph_instance over the first k items:
\*     for edge, weight in edge_map.items():
\*         e = g.add_edge(edge[0], edge[1]); self.weights[e] = weight
RECURSIVE add_edges(_, _, _, _)
add_edges(g, weights, items, k) ==
    IF k = 0 THEN [g |-> g, weights |-> weights]
    ELSE LET done == add_edges(g, weights, items, k - 1)
         IN [g |-> add_edge(done.g, items[k].edge[1], items[k].edge[2]),
             weights |-> set_weight(done.weights, items[k].weight)]

\* Where the graph library may raise while the graph is built: nowhere (-1),
\* in Graph()/add_vertex (0), or in the i-th add_edge (i).
GraphStops(items) == (-1)..Len(items)

\* build_graph_instance(y) on the instance dictionary `self`, given what
\* transform(y) did (tout) and where the graph library raised (stop).
\* Yields the new instance dictionary, the collaborator calls made and the
\* outcome of the call.
build_graph_instance(self, y, tout, stop) ==
    LET tcall == [fn |-> "graph_builder.transform", y |-> y, out |-> tout]
    IN IF tout.kind = "raised"
       THEN [self |-> self, calls |-> <<tcall>>, out |-> tout]
       ELSE
       LET edge_map == tout.value
           gcall(o) == [fn |-> "gt.Graph", n |-> y.shape[2], out |-> o]
       IN IF stop = 0
          THEN [self |-> self,
                calls |-> <<tcall, gcall(Raised(CollaboratorError("graph")))>>,
                out |-> Raised(CollaboratorError("graph"))]
          ELSE
          LET g0 == Graph(y.shape[2])
              n == IF stop = -1 THEN Len(edge_map) ELSE stop - 1
              built == add_edges(g0, new_edge_property, edge_map, n)
              self1 == SetAttr(self, "weights", built.weights)
          IN IF stop = -1
             THEN [self |-> SetAttr(self1, "coocurence_graph", built.g),
                   calls |-> <<tcall, gcall(Returned(built.g))>>,
                   out |-> Returned(built.g)]
             ELSE [self |-> self1,
                   calls |-> <<tcall, gcall(Raised(CollaboratorError("graph")))>>,
                   out |-> Raised(CollaboratorError("graph"))]

TransformTable ==
    [L \in 1..MaxLabels |->
        {Returned(m) : m \in EdgeMaps(L)}
            \cup {Raised(CollaboratorError("graph_builder"))}]

TransformOutcomes(y) == TransformTable[y.shape[2]]

(***************************************************************************)
(* graph-tool's solver.  A fitted state is opaque to the file; it answers  *)
(* get_B, get_blocks / get_overlap_blocks, get_levels and entropy.         *)
(***************************************************************************)
\* The vertices of g with no incident edge.
Isolated(g) ==
    {v \in 0..(g.n - 1) :
        \A i \in DOMAIN g.edges : g.edges[i][1] # v /\ g.edges[i][2] # v}

\* What one level of a fit of g may hold: B blocks and, per vertex, its block
\* id (b) or, with overlap, its set of block ids (bv).  Block ids are below B.
\* An overlapping membership is carried by a vertex's half-edges: a vertex
\* with an edge is in at least one block, a vertex without edges may be in
\* none.
Levels(g, overlap) ==
    IF overlap
    THEN UNION {{[type |-> "OverlapBlockState", g |-> g, B |-> B, bv |-> bv] :
                    bv \in {f \in [1..g.n -> SUBSET (0..(B - 1))] :
                               \A v \in 1..g.n :
                                   f[v] = {} => (v - 1) \in Isolated(g)}} :
                B \in 1..MaxBlocks}
    ELSE UNION {{[type |-> "BlockState", g |-> g, B |-> B, b |-> b] :
                    b \in [1..g.n -> 0..(B - 1)]} :
                B \in 1..MaxBlocks}

\* The level above the finest one of a nested fit: the graph of the finest
\* level's blocks, merged into a single block.
Coarser(level) ==
    [type |-> "BlockState", g |-> Graph(level.B), B |-> 1,
     b |-> [i \in 1..level.B |-> 0]]

\* The graphs build_graph_instance can build.
BuiltGraphs ==
    UNION {{add_edges(Graph(L), new_edge_property, m, Len(m)) : m \in EdgeMaps(L)} :
              L \in 1..MaxLabels}

\* What gt.minimize_nested_blockmodel_dl / gt.minimize_blockmodel_dl may
\* return, by entry point, graph and overlap flag.
SolverTable ==
    [fn \in {"gt.minimize_nested_blockmodel_dl", "gt.minimize_blockmodel_dl"},
     g \in {built.g : built \in BuiltGraphs}, overlap \in BOOLEAN |->
        IF fn = "gt.minimize_nested_blockmodel_dl"
        THEN {[type |-> "NestedBlockState", g |-> g, levels |-> <<l, Coarser(l)>>] :
                 l \in Levels(g, overlap)}
        ELSE Levels(g, overlap)]

SolverStates(fn, g, kwargs) == SolverTable[fn, g, kwargs.overlap]

SolverOutcomes(call) ==
    {Returned(st) : st \in SolverStates(call.fn, call.graph, call.kwargs)}
        \cup {Raised(CollaboratorError("solver"))}

\* The methods of the objects _state may hold that the file calls.
Methods(obj) ==
    CASE obj.type = "BlockState" -> {"get_B", "get_blocks", "entropy"}
      [] obj.type = "OverlapBlockState" -> {"get_B", "get_overlap_blocks", "entropy"}
      [] obj.type = "NestedBlockState" -> {"get_levels", "entropy"}
      [] OTHER -> {}

\* state.entropy(): a number the solver derives from the fitted state.
state_entropy(st) == [type |-> "float", entropy_of |-> st]

\* level.get_overlap_blocks(): membership vector first, edge vectors after.
get_overlap_blocks(level) == <<level.bv, "bc_in", "bc_out", "bc_total">>

(***************************************************************************)
(* skmultilearn.cluster.helpers: the inverse index of a membership vector. *)
(***************************************************************************)
\* size empty groups; then each vertex, in order, appended to the group of
\* its block id.  Vertex k of the vector is label index k - 1.
RECURSIVE membership_loop(_, _, _)
membership_loop(membership_vector, size, k) ==
    IF k = 0 THEN [i \in 1..size |-> << >>]
    ELSE LET list_of_members == membership_loop(membership_vector, size, k - 1)
         IN [i \in 1..size |->
                IF membership_vector[k] = i - 1
                THEN Append(list_of_members[i], k - 1)
                ELSE list_of_members[i]]

_membership_to_list_of_communities(membership_vector, size) ==
    membership_loop(membership_vector, size, Len(membership_vector))

\* The same with a set of block ids per vertex: the vertex is appended to
\* the group of each of them.
RECURSIVE overlapping_loop(_, _, _)
overlapping_loop(membership_vector, size, k) ==
    IF k = 0 THEN [i \in 1..size |-> << >>]
    ELSE LET list_of_members == overlapping_loop(membership_vector, size, k - 1)
         IN [i \in 1..size |->
                IF (i - 1) \in membership_vector[k]
                THEN Append(list_of_members[i], k - 1)
                ELSE list_of_members[i]]

_overlapping_membership_to_list_of_communities(membership_vector, size) ==
    overlapping_loop(membership_vector, size, Len(membership_vector))

(***************************************************************************)
(* StochasticBlockModel                                                    *)
(***************************************************************************)
Self == [type |-> "StochasticBlockModel"]

\* model() as it would be without the nested branch.
model_flat_only == "gt.minimize_blockmodel_dl"

\* model(): the solver entry point.
model ==
    IF nested THEN "gt.minimize_nested_blockmodel_dl"
    ELSE "gt.minimize_blockmodel_dl"

\* The solver call of a fit that never passes state_args.
fit_call_unweighted(graph, weights) ==
    [fn |-> model, graph |-> graph,
     kwargs |-> [deg_corr |-> use_degree_correlation, overlap |-> allow_overlap]]

\* The solver call fit(graph, weights) makes.
fit_call(graph, weights) ==
    IF Truthy(weight_model)
    THEN [fn |-> model, graph |-> graph,
          kwargs |-> [deg_corr |-> use_degree_correlation,
                      overlap |-> allow_overlap,
                      state_args |-> [recs |-> <<weights>>,
                                      rec_types |-> <<weight_model>>]]]
    ELSE [fn |-> model, graph |-> graph,
          kwargs |-> [deg_corr |-> use_degree_correlation,
                      overlap |-> allow_overlap]]

\* fit as it would be if a state already held were kept.
fit_keep_first(graph, weights, sout) ==
    IF sout.kind = "raised"
    THEN [_state |-> _state, out |-> sout]
    ELSE [_state |-> IF _state = None THEN sout.value ELSE _state,
          out |-> Returned(Self)]

\* fit as it would be if it caught the solver's error and went on.
fit_swallow(graph, weights, sout) ==
    IF sout.kind = "raised"
    THEN [_state |-> _state, out |-> Returned(Self)]
    ELSE [_state |-> sout.value, out |-> Returned(Self)]

\* fit(graph, weights), given what the solver did (sout): the state the
\* holder has afterwards and the outcome of the call.
fit(graph, weights, sout) ==
    IF sout.kind = "raised"
    THEN [_state |-> _state, out |-> sout]
    ELSE [_state |-> sout.value, out |-> Returned(Self)]

\* entropy() as it would be if an unfitted holder answered with a default.
entropy_default ==
    IF "entropy" \in Methods(_state)
    THEN Returned(state_entropy(_state))
    ELSE Returned(state_entropy(None))

\* entropy()
entropy ==
    IF "entropy" \in Methods(_state)
    THEN Returned(state_entropy(_state))
    ELSE Raised(AttributeError(_state, "entropy"))

\* communities() as it would be if it counted only the non-empty blocks.
level_communities_nonempty_B(lowest_level) ==
    IF "get_blocks" \notin Methods(lowest_level)
    THEN Raised(AttributeError(lowest_level, "get_blocks"))
    ELSE Returned(_membership_to_list_of_communities(
                      lowest_level.b,
                      Cardinality({lowest_level.b[v] : v \in DOMAIN lowest_level.b})))

\* communities(), from number_of_communities on, on the level chosen.
level_communities(lowest_level) ==
    IF "get_B" \notin Methods(lowest_level)
    THEN Raised(AttributeError(lowest_level, "get_B"))
    ELSE
    LET number_of_communities == lowest_level.B
    IN IF allow_overlap
       THEN IF "get_overlap_blocks" \notin Methods(lowest_level)
            THEN Raised(AttributeError(lowest_level, "get_overlap_blocks"))
            ELSE Returned(_overlapping_membership_to_list_of_communities(
                              get_overlap_blocks(lowest_level)[1],
                              number_of_communities))
       ELSE IF "get_blocks" \notin Methods(lowest_level)
            THEN Raised(AttributeError(lowest_level, "get_blocks"))
            ELSE Returned(_membership_to_list_of_communities(
                              lowest_level.b, number_of_communities))

\* communities() of a holder whose _state is st.
communities(st) ==
    IF nested
    THEN IF "get_levels" \notin Methods(st)
         THEN Raised(AttributeError(st, "get_levels"))
         ELSE level_communities(st.levels[1])
    ELSE level_communities(st)

(***************************************************************************)
(* GraphToolCooccurenceClusterer                                           *)
(***************************************************************************)
\* np.array(list of lists): a 2-d integer array when the lists have one
\* common length, else a 1-d array of the lists; the rows are the lists.
np_array(lists) ==
    LET lens == {Len(lists[i]) : i \in DOMAIN lists}
    IN [type |-> "ndarray",
        shape |-> IF Len(lists) > 0 /\ Cardinality(lens) = 1
                  THEN <<Len(lists), CHOOSE m \in lens : TRUE>>
                  ELSE <<Len(lists)>>,
        rows |-> lists]

\* The filter as it would be if it also dropped the groups of one label.
nonempty_above_one(groups) == SelectSeq(groups, LAMBDA community : Len(community) > 1)

\* [community for community in communities if len(community) > 0]
nonempty(groups) == SelectSeq(groups, LAMBDA community : Len(community) > 0)

WithOut(call, out) == [k \in DOMAIN call \cup {"out"} |->
                          IF k = "out" THEN out ELSE call[k]]

\* The same as it would be if model_count counted the groups before the
\* empty ones are dropped.
fit_predict_tail_raw_count(built, sout) ==
    LET self1 == built.self
        call == fit_call(self1["coocurence_graph"], self1["weights"])
        fitted == fit(self1["coocurence_graph"], self1["weights"], sout)
        log == Append(built.calls, WithOut(call, sout))
    IN IF fitted.out.kind = "raised"
       THEN [self |-> self1, _state |-> fitted._state, calls |-> log,
             out |-> fitted.out]
       ELSE
       LET found == communities(fitted._state)
       IN IF found.kind = "raised"
          THEN [self |-> self1, _state |-> fitted._state, calls |-> log,
                out |-> found]
          ELSE
          LET label_sets == nonempty(found.value)
              self2 == SetAttr(self1, "label_sets", label_sets)
              self3 == SetAttr(self2, "model_count", Len(found.value))
          IN [self |-> self3, _state |-> fitted._state, calls |-> log,
              out |-> Returned(np_array(label_sets))]

\* fit_predict(X, y) after build_graph_instance returned (built), given what
\* the solver did (sout).
fit_predict_tail(built, sout) ==
    LET self1 == built.self
        call == fit_call(self1["coocurence_graph"], self1["weights"])
        fitted == fit(self1["coocurence_graph"], self1["weights"], sout)
        log == Append(built.calls, WithOut(call, sout))
    IN IF fitted.out.kind = "raised"
       THEN [self |-> self1, _state |-> fitted._state, calls |-> log,
             out |-> fitted.out]
       ELSE
       LET found == communities(fitted._state)
       IN IF found.kind = "raised"
          THEN [self |-> self1, _state |-> fitted._state, calls |-> log,
                out |-> found]
          ELSE
          LET label_sets == nonempty(found.value)
              self2 == SetAttr(self1, "label_sets", label_sets)
              self3 == SetAttr(self2, "model_count", Len(label_sets))
          IN [self |-> self3, _state |-> fitted._state, calls |-> log,
              out |-> Returned(np_array(label_sets))]

\* fit_predict(X, y) up to and including build_graph_instance.
fit_predict_head(X, y, tout, stop) ==
    build_graph_instance(SetAttr(clusterer, "label_count", y.shape[2]),
                         y, tout, stop)

(***************************************************************************)
(* The state machine.                                                      *)
(***************************************************************************)
\* What the holder and the clusterer held when an operation was called.
Before == [fitted |-> _state # None, clustered |-> HasAttr(clusterer, "label_sets")]

\* The record of the last operation: its name, arguments and outcome.
Call(op, args, out) == [op |-> op, args |-> args, before |-> Before, out |-> out]

Init ==
    /\ nested \in BOOLEAN
    /\ use_degree_correlation \in BOOLEAN
    /\ allow_overlap \in BOOLEAN
    /\ weight_model \in WeightModels
    /\ _state = None
    /\ clusterer = EmptyDict
    /\ ret = Call("__init__", << >>, Returned(None))
    /\ calls = << >>

\* model.fit(graph, weights)
Fit ==
    \E built \in BuiltGraphs :
    \E sout \in SolverOutcomes(fit_call(built.g, built.weights)) :
    \E fitted \in {fit(built.g, built.weights, sout)} :
        /\ _state' = fitted._state
        /\ ret' = Call("fit", [graph |-> built.g, weights |-> built.weights],
                       fitted.out)
        /\ calls' = <<WithOut(fit_call(built.g, built.weights), sout)>>
        /\ UNCHANGED <<config, clusterer>>

\* model.entropy()
Entropy ==
    /\ ret' = Call("entropy", << >>, entropy)
    /\ calls' = << >>
    /\ UNCHANGED <<config, _state, clusterer>>

\* model.communities()
Communities ==
    /\ ret' = Call("communities", << >>, communities(_state))
    /\ calls' = << >>
    /\ UNCHANGED <<config, _state, clusterer>>

\* clusterer.build_graph_instance(y)
BuildGraphInstance ==
    \E y \in LabelMatrices :
    \E tout \in TransformOutcomes(y) :
    \E stop \in (IF tout.kind = "raised" THEN {-1} ELSE GraphStops(tout.value)) :
    \E built \in {build_graph_instance(clusterer, y, tout, stop)} :
        /\ clusterer' = built.self
        /\ ret' = Call("build_graph_instance", [y |-> y], built.out)
        /\ calls' = built.calls
        /\ UNCHANGED <<config, _state>>

\* clusterer.fit_predict(X, y)
FitPredict ==
    \E X \in FeatureMatrices, y \in LabelMatrices :
    \E tout \in TransformOutcomes(y) :
    \E stop \in (IF tout.kind = "raised" THEN {-1} ELSE GraphStops(tout.value)) :
    \E built \in {fit_predict_head(X, y, tout, stop)} :
        IF built.out.kind = "raised"
        THEN /\ clusterer' = built.self
             /\ ret' = Call("fit_predict", [y |-> y], built.out)
             /\ calls' = built.calls
             /\ UNCHANGED <<config, _state>>
        ELSE \E sout \in SolverOutcomes(fit_call(built.self["coocurence_graph"],
                                                 built.self["weights"])) :
             \E done \in {fit_predict_tail(built, sout)} :
                 /\ clusterer' = done.self
                 /\ _state' = done._state
                 /\ ret' = Call("fit_predict", [y |-> y], done.out)
                 /\ calls' = done.calls
                 /\ UNCHANGED config

Next == Fit \/ Entropy \/ Communities \/ BuildGraphInstance \/ FitPredict

Spec == Init /\ [][Next]_vars

\* Spec interleaves the operations of both objects.  The specifications
\* below are its restrictions to the operations of one object; each of their
\* behaviours is a behaviour of Spec.

\* The model holder on its own.
NextModel == Fit \/ Entropy \/ Communities

SpecModel == Init /\ [][NextModel]_vars

\* The clusterer's graph construction on its own.
NextGraph == BuildGraphInstance

SpecGraph == Init /\ [][NextGraph]_vars

\* The clusterer driving its model holder: sequences of fit_predict calls.
NextClusterer == FitPredict

SpecClusterer == Init /\ [][NextClusterer]_vars

(***************************************************************************)
(* Properties.                                                             *)
(***************************************************************************)
IsFitted == _state # None

\* The finest level of a fitted state: index 0 of a nested hierarchy, the
\* state itself when it is flat.
FinestLevel(st) == IF st.type = "NestedBlockState" THEN st.levels[1] ELSE st

\* The block ids the solver assigned to label index v at a level.
BlocksOf(level, v) ==
    IF level.type = "OverlapBlockState" THEN level.bv[v + 1] ELSE {level.b[v + 1]}

Occurrences(list, x) == Cardinality({j \in DOMAIN list : list[j] = x})

\* groups is the inverse index of a level over label indices 0..L-1: one
\* group per block id 0..B-1, holding once each label index assigned that id
\* and nothing else.
IsInverseIndex(groups, level, L) ==
    /\ Len(groups) = level.B
    /\ \A i \in 1..level.B :
        /\ \A j \in DOMAIN groups[i] : groups[i][j] \in 0..(L - 1)
        /\ \A v \in 0..(L - 1) :
              Occurrences(groups[i], v) = IF (i - 1) \in BlocksOf(level, v) THEN 1 ELSE 0

\* The groups of a list that hold label index v.
GroupsHolding(groups, v) ==
    {i \in DOMAIN groups : Occurrences(groups[i], v) > 0}

\* C1: on a holder that holds no fitted state, entropy() and communities()
\* raise the attribute error of the absent state (the "not fitted"
\* condition) instead of returning a value, and the holder stays unfitted.
C1_UnfittedQueriesFail ==
    [][(_state = None /\ ret'.op \in {"entropy", "communities"}) =>
          /\ ret'.out.kind = "raised"
          /\ ret'.out.value.type = "AttributeError"
          /\ ret'.out.value.obj = "NoneType"
          /\ _state' = None]_vars

C1_Witness ==
    /\ _state = None
    /\ ret.op \in {"entropy", "communities"}
    /\ ret.out.kind = "raised"

\* C2: after a fit without overlap on a graph of L vertices, communities()
\* returns exactly B groups, indexed by block id, empty ones included, and
\* every label index 0..L-1 is in exactly one of them: the group of the
\* block id the solver gave its vertex.
C2_PartitionByBlockId ==
    (ret.op = "communities" /\ IsFitted /\ ~allow_overlap) =>
        LET level == FinestLevel(_state)
            L == _state.g.n
            groups == ret.out.value
        IN /\ ret.out.kind = "returned"
           /\ Len(groups) = level.B
           /\ \A v \in 0..(L - 1) :
                 GroupsHolding(groups, v) = {level.b[v + 1] + 1}
           /\ \A i \in DOMAIN groups :
                 /\ \A v \in 0..(L - 1) : Occurrences(groups[i], v) <= 1
                 /\ \A j \in DOMAIN groups[i] : groups[i][j] \in 0..(L - 1)

C2_Witness ==
    /\ ret.op = "communities" /\ IsFitted /\ ~allow_overlap
    /\ ret.out.kind = "returned"
    /\ \E i \in DOMAIN ret.out.value : ret.out.value[i] = << >>
    /\ \E i \in DOMAIN ret.out.value : Len(ret.out.value[i]) >= 2

\* C3: after a fit with overlap on a graph of L vertices, every label index
\* 0..L-1 is in at least one group communities() returns, and a vertex the
\* solver assigned to k blocks is in exactly the k groups of those blocks.
C3_EveryLabelCovered ==
    (ret.op = "communities" /\ IsFitted /\ allow_overlap) =>
        LET level == FinestLevel(_state)
            L == _state.g.n
            groups == ret.out.value
        IN /\ ret.out.kind = "returned"
           /\ \A v \in 0..(L - 1) :
                 /\ GroupsHolding(groups, v) # {}
                 /\ GroupsHolding(groups, v) = {id + 1 : id \in level.bv[v + 1]}
                 /\ Cardinality(GroupsHolding(groups, v)) = Cardinality(level.bv[v + 1])

\* C6: fit(graph, weights) calls the solver once, on that graph, with the
\* degree-correlation and overlap flags of the holder; with a weight model
\* configured the call names exactly that weights map and that weight model
\* in state_args, and without one it carries no weight information.
C6_WeightsReachSolverIffConfigured ==
    ret.op = "fit" =>
        /\ Len(calls) = 1
        /\ calls[1].fn \in {"gt.minimize_nested_blockmodel_dl", "gt.minimize_blockmodel_dl"}
        /\ calls[1].graph = ret.args.graph
        /\ calls[1].kwargs.deg_corr = use_degree_correlation
        /\ calls[1].kwargs.overlap = allow_overlap
        /\ IF weight_model # None
           THEN /\ DOMAIN calls[1].kwargs = {"deg_corr", "overlap", "state_args"}
                /\ calls[1].kwargs.state_args =
                      [recs |-> <<ret.args.weights>>, rec_types |-> <<weight_model>>]
           ELSE DOMAIN calls[1].kwargs = {"deg_corr", "overlap"}

C6_Witness ==
    /\ ret.op = "fit" /\ ret.out.kind = "returned"
    /\ weight_model # None
    /\ Len(ret.args.weights.a) >= 1

\* C7: a successful fit leaves the holder with exactly the state the solver
\* returned for it, a state of the graph just passed, and returns the holder
\* itself; entropy() and communities() answer from the state held and leave
\* it alone; no operation changes the four configuration values.
C7_FitReplacesState ==
    [][/\ config' = config
       /\ (ret'.op = "fit" /\ ret'.out.kind = "returned") =>
             /\ _state' = calls'[1].out.value
             /\ _state'.g = ret'.args.graph
             /\ ret'.out.value = Self
       /\ (ret'.op = "entropy" /\ IsFitted) =>
             /\ _state' = _state
             /\ ret'.out = Returned(state_entropy(_state))
       /\ (ret'.op = "communities" /\ IsFitted) =>
             /\ _state' = _state
             /\ ret'.out.kind = "returned"
             /\ IsInverseIndex(ret'.out.value, FinestLevel(_state), _state.g.n)]_vars

C7_Witness ==
    /\ ret.op = "fit" /\ ret.out.kind = "returned"
    /\ ret.before.fitted

\* C9: fit calls the nested solver exactly when the nested flag is set and
\* the flat one otherwise, so the state held is a nested hierarchy exactly
\* when the flag is set; communities() answers with the groups of index 0 of
\* the hierarchy when the flag is set and of the flat state otherwise.
C9_VariantFollowsNestedFlag ==
    /\ ret.op = "fit" =>
          calls[1].fn = (IF nested THEN "gt.minimize_nested_blockmodel_dl"
                         ELSE "gt.minimize_blockmodel_dl")
    /\ IsFitted => (_state.type = "NestedBlockState" <=> nested)
    /\ (ret.op = "communities" /\ IsFitted) =>
          /\ ret.out.kind = "returned"
          /\ IsInverseIndex(ret.out.value,
                            IF nested THEN _state.levels[1] ELSE _state,
                            _state.g.n)

C9_Witness ==
    /\ ret.op = "communities" /\ IsFitted /\ nested
    /\ ret.out.kind = "returned"
    /\ ret.before.fitted
    /\ _state.levels[1].B > _state.levels[2].B

\* rows are the entries of raw that are not empty, in raw's order.
IsNonEmptyOnesOf(rows, raw) ==
    /\ \A i \in DOMAIN rows : Len(rows[i]) >= 1
    /\ Len(rows) = Cardinality({j \in DOMAIN raw : Len(raw[j]) > 0})
    /\ \E f \in [DOMAIN rows -> DOMAIN raw] :
          /\ \A i, k \in DOMAIN rows : i < k => f[i] < f[k]
          /\ \A i \in DOMAIN rows : rows[i] = raw[f[i]]

\* C4: a fit_predict that returns, returns the groups communities() gives
\* for the model's state with the empty ones, and only those, removed and
\* the order kept; label_sets holds the same list and model_count its length.
\* (X takes part in nothing.)
C4_ReturnsNonEmptyCommunities ==
    (ret.op = "fit_predict" /\ ret.out.kind = "returned") =>
        /\ communities(_state).kind = "returned"
        /\ ret.out.value.type = "ndarray"
        /\ IsNonEmptyOnesOf(ret.out.value.rows, communities(_state).value)
        /\ clusterer["label_sets"] = ret.out.value.rows
        /\ clusterer["model_count"] = Len(ret.out.value.rows)

C4_Witness ==
    /\ ret.op = "fit_predict" /\ ret.out.kind = "returned"
    /\ Len(ret.out.value.rows) >= 1
    /\ Len(ret.out.value.rows) < Len(communities(_state).value)
    /\ \E i \in DOMAIN ret.out.value.rows : Len(ret.out.value.rows[i]) = 1

SameAttr(before, after, name) ==
    /\ HasAttr(after, name) <=> HasAttr(before, name)
    /\ HasAttr(before, name) => after[name] = before[name]

\* C8: when a collaborator raises during fit_predict (the graph builder, the
\* graph library or the solver), it is the last call made, no collaborator
\* was called twice, the call raises that very error, and label_sets and
\* model_count are as they were before the call; fit_predict raises for no
\* other reason.
C8_FailuresPropagate ==
    [][ret'.op = "fit_predict" =>
          LET failed == {i \in DOMAIN calls' : calls'[i].out.kind = "raised"}
          IN /\ ret'.out.kind = "raised" <=> failed # {}
             /\ failed # {} =>
                   /\ failed = {Len(calls')}
                   /\ ret'.out = calls'[Len(calls')].out
                   /\ \A i, j \in DOMAIN calls' :
                         calls'[i].fn = calls'[j].fn => i = j
                   /\ SameAttr(clusterer, clusterer', "label_sets")
                   /\ SameAttr(clusterer, clusterer', "model_count")]_vars

C8_Witness ==
    /\ ret.op = "fit_predict" /\ ret.out.kind = "raised"
    /\ ret.out.value = CollaboratorError("solver")
    /\ ret.before.clustered
    /\ Len(clusterer["label_sets"]) >= 1
    /\ Len(calls) = 3

\* C10: when the last fit_predict returned, the attributes all stem from
\* that call: label_count is the column count of its y and the vertex count
\* of coocurence_graph; coocurence_graph and weights are built from the
\* mapping the graph builder gave for that y; the model's state is the one
\* the solver returned for that graph; label_sets are the non-empty groups
\* of that state and model_count is their number.
C10_AttributesFromLastCall ==
    (ret.op = "fit_predict" /\ ret.out.kind = "returned") =>
        LET g == clusterer["coocurence_graph"]
            edge_map == calls[1].out.value
        IN /\ DOMAIN clusterer = {"label_count", "weights", "coocurence_graph",
                                  "label_sets", "model_count"}
           /\ clusterer["label_count"] = ret.args.y.shape[2]
           /\ g.n = clusterer["label_count"]
           /\ calls[1].y = ret.args.y
           /\ Len(g.edges) = Len(edge_map)
           /\ Len(clusterer["weights"].a) = Len(g.edges)
           /\ \A i \in DOMAIN edge_map :
                 /\ g.edges[i] = <<edge_map[i].edge[1], edge_map[i].edge[2]>>
                 /\ clusterer["weights"].a[i] = edge_map[i].weight
           /\ Len(calls) = 3
           /\ calls[3].graph = g
           /\ calls[3].out = Returned(_state)
           /\ _state.g = g
           /\ IsNonEmptyOnesOf(clusterer["label_sets"], communities(_state).value)
           /\ clusterer["model_count"] = Len(clusterer["label_sets"])

C10_Witness ==
    /\ ret.op = "fit_predict" /\ ret.out.kind = "returned"
    /\ ret.before.clustered
    /\ Len(clusterer["coocurence_graph"].edges) >= 1
    /\ clusterer["model_count"] >= 2

====
